---------------------------- MODULE Spec2Model ----------------------------
(***************************************************************************)
(* The query workflow of the learning application's UI layer: the          *)
(* useApiQuery hook (submitQuery, clearError, reset) with the collaborators*)
(* it drives (Task Tracker, Offline Cache, API Client).                    *)
(*                                                                         *)
(* Each action is one synchronous run of the hook between two suspension   *)
(* points (await, timer): the event loop runs such a segment to the end    *)
(* before any other handler, so a segment is atomic.  setState(prev => ..) *)
(* updaters are applied in the order they are queued; a segment's updaters *)
(* are composed in that order.                                             *)
(***************************************************************************)
EXTENDS Naturals, Sequences, FiniteSets, TLC

(***************************************************************************)
(* Bounds of the model.                                                    *)
(***************************************************************************)
\* submitQuery calls in one run of Spec and SeqSpec, where a call is made only
\* when no invocation is suspended.  Calls made while earlier work is pending
\* are the subject of OverlapSpec and PendingSpec, whose second call has no
\* such cap.
MaxSubmits == 1
\* progress callbacks the backend emits in one run of the model
MaxCallbacks == 2

\* Invocation slots: at most two submitQuery invocations overlap.
Invocations == {1, 2}

\* JavaScript null and undefined (values no program string equals).
Null == "<null>"
Undefined == "<undefined>"

\* JavaScript truthiness of a string-or-object-or-null value, and `v || null`.
Truthy(v) == v \notin {Null, Undefined, ""}
OrNull(v) == IF Truthy(v) THEN v ELSE Null

Queries == {"photosynthesis", "gravity"}
\* The ids the backend assigns to new queries ("q1" is the id the Offline Cache
\* holds at start).
ResultIds == {"q2"}

\* Opaque ContentResponse payloads, one per content kind and query id.
LessonsOf(id) == "lessons:" \o id
RelatedOf(id) == "related:" \o id

(***************************************************************************)
(* Values thrown by the collaborators.                                     *)
(***************************************************************************)
Errors ==
  { [kind |-> "APIClientError", statusCode |-> 0,   message |-> "ECONNREFUSED"],
    [kind |-> "APIClientError", statusCode |-> 500, message |-> "Internal Server Error"],
    [kind |-> "Error",          statusCode |-> 0,   message |-> "boom"],
    [kind |-> "other",          statusCode |-> 0,   message |-> Null] }

NoError == [kind |-> "none", statusCode |-> 0, message |-> Null]

\* What submitQueryAndWait resolves with: {queryId, lessons?, relatedQuestions?}
\* (a result without a queryId carries the content of an unnamed query).
ContentId(q) == IF q = Undefined THEN "q0" ELSE q

ResultsFor(q) ==
  { [queryId |-> q, lessons |-> l, relatedQuestions |-> r] :
      l \in {Undefined, LessonsOf(ContentId(q))},
      r \in {Undefined, RelatedOf(ContentId(q))} }

Results == UNION { ResultsFor(q) : q \in ResultIds \cup {Undefined} }

NoResult == [queryId |-> Undefined, lessons |-> Undefined, relatedQuestions |-> Undefined]

\* Progress texts the backend streams to the callback.
Messages ==
  { "Query submitted",
    "Lessons ready",
    "Related questions ready",
    "Related questions may take longer",
    "Query submitted. Lessons ready",
    "Processing" }

(***************************************************************************)
(* String.prototype.includes                                               *)
(***************************************************************************)
Includes(s, k) ==
  \E i \in 1..(Len(s) + 1) :
     i + Len(k) - 1 <= Len(s) /\ SubSeq(s, i, i + Len(k) - 1) = k

(***************************************************************************)
(* Task Tracker (use-task-tracker): content task type -> task record.      *)
(***************************************************************************)
TaskTypes == {"LESSONS", "RELATED_QUESTIONS", "FLASHCARDS", "QUIZ"}

NoTasks == [t \in {} |-> [status |-> "PENDING", progress |-> 0, failureReason |-> Null]]

NewTask == [status |-> "PENDING", progress |-> 0, failureReason |-> Null]

\* getTaskByType of a type without a record yields undefined.
NoTask == [status |-> Undefined, progress |-> 0, failureReason |-> Undefined]

HasTask(t, type) == type \in DOMAIN t

GetTaskByType(t, type) == IF HasTask(t, type) THEN t[type] ELSE NoTask

\* relatedQuestionsTask?.status
StatusOf(t, type) == GetTaskByType(t, type).status

TaskOrNew(t, type) == IF HasTask(t, type) THEN t[type] ELSE NewTask

Put(t, type, rec) == [x \in (DOMAIN t) \cup {type} |-> IF x = type THEN rec ELSE t[x]]

StartTracking == [x \in TaskTypes |-> NewTask]

UpdateTaskProgress(t, type, p) ==
  Put(t, type, [TaskOrNew(t, type) EXCEPT !.status = "IN_PROGRESS", !.progress = p])

MarkTaskCompleted(t, type) ==
  Put(t, type, [TaskOrNew(t, type) EXCEPT !.status = "COMPLETED", !.progress = 100])

MarkTaskFailed(t, type, reason) ==
  Put(t, type, [TaskOrNew(t, type) EXCEPT !.status = "FAILED", !.failureReason = reason])

ResetTracker == NoTasks

(***************************************************************************)
(* Offline Cache (offline-manager): query string -> cached query id.       *)
(***************************************************************************)
GetCachedQueryId(c, query) == c[query]

SaveQueryMapping(c, query, id) == [c EXCEPT ![query] = id]

(***************************************************************************)
(* QueryState and the updaters submitQuery, clearError and reset queue.    *)
(***************************************************************************)
InitialState ==
  [loading |-> FALSE, error |-> Null, queryId |-> Null, lessons |-> Null,
   relatedQuestions |-> Null, progress |-> Null]

SetProgress(prev, text) == [prev EXCEPT !.progress = text]

BeginSubmit(prev) ==
  [prev EXCEPT !.loading = TRUE, !.error = Null,
               !.progress = "Checking for cached query..."]

\* Faulty variant: the cached-content commit forgets loading=false.
CachedCommitStillLoading(prev, cachedQueryId, lessonsResult, relatedQuestionsResult) ==
  [prev EXCEPT !.queryId = cachedQueryId,
               !.lessons = lessonsResult,
               !.relatedQuestions = relatedQuestionsResult,
               !.progress = "Cached content loaded!"]

CachedCommit(prev, cachedQueryId, lessonsResult, relatedQuestionsResult) ==
  [prev EXCEPT !.loading = FALSE, !.queryId = cachedQueryId,
               !.lessons = lessonsResult,
               !.relatedQuestions = relatedQuestionsResult,
               !.progress = "Cached content loaded!"]

\* Faulty variant: the final commit stores absent content as it came (no `|| null`).
FinalCommitRaw(prev, result) ==
  [prev EXCEPT !.loading = FALSE, !.queryId = result.queryId,
               !.lessons = result.lessons,
               !.relatedQuestions = result.relatedQuestions,
               !.progress = "Query completed!"]

\* Faulty variant: the final commit clears the error as well.
FinalCommitClearsError(prev, result) ==
  [prev EXCEPT !.loading = FALSE, !.error = Null, !.queryId = result.queryId,
               !.lessons = OrNull(result.lessons),
               !.relatedQuestions = OrNull(result.relatedQuestions),
               !.progress = "Query completed!"]

\* Faulty variant: the final commit leaves loading as it was.
FinalCommitStillLoading(prev, result) ==
  [prev EXCEPT !.queryId = result.queryId,
               !.lessons = OrNull(result.lessons),
               !.relatedQuestions = OrNull(result.relatedQuestions),
               !.progress = "Query completed!"]

FinalCommit(prev, result) ==
  [prev EXCEPT !.loading = FALSE, !.queryId = result.queryId,
               !.lessons = OrNull(result.lessons),
               !.relatedQuestions = OrNull(result.relatedQuestions),
               !.progress = "Query completed!"]

ErrorMessage(e) ==
  IF e.kind = "APIClientError"
  THEN IF e.statusCode = 0
       THEN "Connection failed: " \o e.message
              \o ". Is the backend server running on the correct port?"
       ELSE "Backend error (" \o ToString(e.statusCode) \o "): " \o e.message
  ELSE IF e.kind = "Error"
       THEN e.message
       ELSE "An unexpected error occurred"

\* Faulty variant: the error path also drops the content of the previous query.
ErrorCommitClearsContent(prev, e) ==
  [prev EXCEPT !.loading = FALSE, !.error = ErrorMessage(e), !.progress = Null,
               !.queryId = Null, !.lessons = Null, !.relatedQuestions = Null]

ErrorCommit(prev, e) ==
  [prev EXCEPT !.loading = FALSE, !.error = ErrorMessage(e), !.progress = Null]

\* Faulty variant: clearError clears the progress text with the error.
ClearErrorUpdateDropsProgress(prev) == [prev EXCEPT !.error = Null, !.progress = Null]

ClearErrorUpdate(prev) == [prev EXCEPT !.error = Null]

(***************************************************************************)
(* The progress callback's Task Tracker updates: the first keyword the     *)
(* text includes decides.                                                  *)
(***************************************************************************)
BumpFlashcardsIfLessonsDone(t) ==
  IF StatusOf(t, "LESSONS") = "COMPLETED"
  THEN UpdateTaskProgress(t, "FLASHCARDS", 30)
  ELSE t

\* Faulty variant: "Lessons ready" does not start the flashcards task.
OnProgressSkipsFlashcards(t, progress) ==
  IF Includes(progress, "submitted")
  THEN UpdateTaskProgress(UpdateTaskProgress(t, "LESSONS", 20),
                          "RELATED_QUESTIONS", 10)
  ELSE IF Includes(progress, "Lessons ready")
  THEN UpdateTaskProgress(MarkTaskCompleted(t, "LESSONS"),
                          "RELATED_QUESTIONS", 50)
  ELSE IF Includes(progress, "Related questions ready")
  THEN BumpFlashcardsIfLessonsDone(MarkTaskCompleted(t, "RELATED_QUESTIONS"))
  ELSE IF Includes(progress, "may take longer")
  THEN BumpFlashcardsIfLessonsDone(
         MarkTaskFailed(t, "RELATED_QUESTIONS",
                        "Related questions are taking longer than expected"))
  ELSE t

OnProgress(t, progress) ==
  IF Includes(progress, "submitted")
  THEN UpdateTaskProgress(UpdateTaskProgress(t, "LESSONS", 20),
                          "RELATED_QUESTIONS", 10)
  ELSE IF Includes(progress, "Lessons ready")
  THEN UpdateTaskProgress(
         UpdateTaskProgress(MarkTaskCompleted(t, "LESSONS"),
                            "RELATED_QUESTIONS", 50),
         "FLASHCARDS", 10)
  ELSE IF Includes(progress, "Related questions ready")
  THEN BumpFlashcardsIfLessonsDone(MarkTaskCompleted(t, "RELATED_QUESTIONS"))
  ELSE IF Includes(progress, "may take longer")
  THEN BumpFlashcardsIfLessonsDone(
         MarkTaskFailed(t, "RELATED_QUESTIONS",
                        "Related questions are taking longer than expected"))
  ELSE t

(***************************************************************************)
(* Post-submission reconciliation and the first staging step.              *)
(***************************************************************************)
\* Faulty variant: reconciliation does not look at the task's status.
ReconcileUnconditional(t, result) ==
  IF Truthy(result.lessons) /\ ~Truthy(result.relatedQuestions)
  THEN MarkTaskFailed(t, "RELATED_QUESTIONS",
                      "Related questions could not be generated")
  ELSE t

Reconcile(t, result) ==
  IF Truthy(result.lessons) /\ ~Truthy(result.relatedQuestions)
     /\ StatusOf(t, "RELATED_QUESTIONS") # "COMPLETED"
     /\ StatusOf(t, "RELATED_QUESTIONS") # "FAILED"
  THEN MarkTaskFailed(t, "RELATED_QUESTIONS",
                      "Related questions could not be generated")
  ELSE t

StartFlashcards(t, result) ==
  IF Truthy(result.lessons) THEN UpdateTaskProgress(t, "FLASHCARDS", 50) ELSE t

\* The chained setTimeout callbacks, by stage.
TimerStages == 1..4

\* Faulty variant: the first timer already starts the quiz.
TimerEffectQuizEarly(t, stage) ==
  CASE stage = 1 -> UpdateTaskProgress(UpdateTaskProgress(t, "FLASHCARDS", 80), "QUIZ", 30)
    [] stage = 2 -> MarkTaskCompleted(t, "FLASHCARDS")
    [] stage = 3 -> UpdateTaskProgress(t, "QUIZ", 70)
    [] OTHER     -> MarkTaskCompleted(t, "QUIZ")

TimerEffect(t, stage) ==
  CASE stage = 1 -> UpdateTaskProgress(t, "FLASHCARDS", 80)
    [] stage = 2 -> UpdateTaskProgress(MarkTaskCompleted(t, "FLASHCARDS"), "QUIZ", 30)
    [] stage = 3 -> UpdateTaskProgress(t, "QUIZ", 70)
    [] OTHER     -> MarkTaskCompleted(t, "QUIZ")

(***************************************************************************)
(* State.                                                                  *)
(*   state   the hook's QueryState                                         *)
(*   tasks   the Task Tracker's records                                    *)
(*   cache   the Offline Cache's query -> id mapping                       *)
(*   inv     each submitQuery invocation: where it is suspended (pc), its  *)
(*           argument and locals, the progress text its health-check catch *)
(*           wrote before going on (warning), how many times it has called *)
(*           submitQueryAndWait (calls) and how it ended (outcome)         *)
(*   timers  pending setTimeout callbacks of the staging, per stage        *)
(*   nsub    submitQuery calls so far                                      *)
(*   ncb     progress callbacks so far                                     *)
(***************************************************************************)
VARIABLES state, tasks, cache, inv, timers, nsub, ncb

(***************************************************************************)
(* State of the Content Fetch Workflow (useQueryContent).                  *)
(*   content  the hook's {loading, error}                                  *)
(*   fetch    the getFlashcards / getQuiz call: where it is (pc), its      *)
(*            arguments, the API Client call it made, what that call threw *)
(*            and what getFlashcards / getQuiz returned                    *)
(*   nfetch   getFlashcards / getQuiz calls so far                         *)
(***************************************************************************)
VARIABLES content, fetch, nfetch

(***************************************************************************)
(* State of the App Shell.                                                 *)
(*   shell               currentState, currentTopic, currentExplanation,   *)
(*                       currentFlashcards, currentStepIndex, isUserQuery  *)
(*   lessonProgressList  the lesson-progress entries, in the order of the  *)
(*                       array useLessonProgress hands out                 *)
(*   exploring           the handleStartExploration invocations suspended  *)
(*                       on getLastAccessedLesson                          *)
(***************************************************************************)
VARIABLES shell, lessonProgressList, exploring

queryVars == <<state, tasks, cache, inv, timers, nsub, ncb>>

contentVars == <<content, fetch, nfetch>>

shellVars == <<shell, lessonProgressList, exploring>>

vars == <<state, tasks, cache, inv, timers, nsub, ncb,
          content, fetch, nfetch, shell, lessonProgressList, exploring>>

\* No getFlashcards / getQuiz call has been made.
NoFetch ==
  [pc |-> "idle", op |-> Null, args |-> <<>>, call |-> [name |-> Null, args |-> <<>>],
   thrown |-> NoError, returned |-> Null]

ContentIdle ==
  /\ content = [loading |-> FALSE, error |-> Null]
  /\ fetch = NoFetch
  /\ nfetch = 0

\* The useState initial values of lines 14-19.
InitialShell ==
  [currentState |-> "home", currentTopic |-> "", currentExplanation |-> Null,
   currentFlashcards |-> <<>>, currentStepIndex |-> 0, isUserQuery |-> TRUE]

ShellIdle ==
  /\ shell = InitialShell
  /\ lessonProgressList = <<>>
  /\ exploring = <<>>

IdleInvocation ==
  [pc |-> "idle", query |-> Null, cachedQueryId |-> Null,
   lessonsResult |-> Null, relatedQuestionsResult |-> Null,
   health |-> "none", warning |-> Null, result |-> NoResult, error |-> NoError,
   calls |-> 0, outcome |-> "none"]

\* The Offline Cache of an earlier session: one query cached, one not.
InitialCache == [q \in Queries |-> IF q = "photosynthesis" THEN "q1" ELSE Null]

\* The Query Workflow after construction.
QueryIdle ==
  /\ state = InitialState
  /\ tasks = NoTasks
  /\ cache = InitialCache
  /\ inv = [i \in Invocations |-> IdleInvocation]
  /\ timers = [k \in TimerStages |-> 0]
  /\ nsub = 0
  /\ ncb = 0

Init ==
  /\ QueryIdle
  /\ ContentIdle
  /\ ShellIdle

(***************************************************************************)
(* submitQuery, segment by segment.                                        *)
(***************************************************************************)
\* Entry: lines 36-46, up to the await of getCachedQueryId.
SubmitQuery(i, query) ==
  /\ inv[i].pc \in {"idle", "done"}
  /\ nsub < MaxSubmits
  /\ nsub' = nsub + 1
  /\ state' = BeginSubmit(state)
  /\ inv' = [inv EXCEPT ![i] = [IdleInvocation EXCEPT !.pc = "awaitCache",
                                                       !.query = query]]
  /\ UNCHANGED <<contentVars, shellVars, tasks, cache, timers, ncb>>

\* The catch block of lines 205-229.
ErrorPath(i, e) ==
  /\ state' = ErrorCommit(state, e)
  /\ tasks' = ResetTracker
  /\ inv' = [inv EXCEPT ![i].pc = "done", ![i].error = e, ![i].outcome = "error"]

\* Faulty variant: falling back to a fresh submission reports the unavailable cache.
FreshPathStateSurfacing(prev) ==
  [prev EXCEPT !.error = "Cached content not available",
               !.progress = "Checking backend connection..."]

\* Lines 84-87: the first updater of the fresh-submission path.
FreshPathState(prev) == SetProgress(prev, "Checking backend connection...")

\* getCachedQueryId resolves: lines 46-60 (cache hit) or 46-48, 83-91 (miss).
CacheLookupResolves(i) ==
  /\ inv[i].pc = "awaitCache"
  /\ LET cachedQueryId == GetCachedQueryId(cache, inv[i].query) IN
       IF Truthy(cachedQueryId)
       THEN /\ state' = SetProgress(state, "Found cached query, loading content...")
            /\ inv' = [inv EXCEPT ![i].pc = "awaitFetch",
                                   ![i].cachedQueryId = cachedQueryId]
       ELSE /\ state' = FreshPathState(state)
            /\ inv' = [inv EXCEPT ![i].pc = "awaitHealth",
                                   ![i].cachedQueryId = cachedQueryId]
  /\ UNCHANGED <<contentVars, shellVars, tasks, cache, timers, nsub, ncb>>

\* getCachedQueryId rejects: the await of line 46 is inside the outer try only.
CacheLookupRejects(i, e) ==
  /\ inv[i].pc = "awaitCache"
  /\ ErrorPath(i, e)
  /\ UNCHANGED <<contentVars, shellVars, cache, timers, nsub, ncb>>

\* Faulty variant: the cached-content commit starts tracking the four content tasks.
FetchSettlesTracking(i, lessonsOk, relatedOk) ==
  /\ inv[i].pc = "awaitFetch"
  /\ LET lessonsResult == IF lessonsOk THEN LessonsOf(inv[i].cachedQueryId) ELSE Null
         relatedQuestionsResult ==
           IF relatedOk THEN RelatedOf(inv[i].cachedQueryId) ELSE Null
         settled == [inv[i] EXCEPT !.lessonsResult = lessonsResult,
                                   !.relatedQuestionsResult = relatedQuestionsResult]
     IN IF Truthy(lessonsResult)
        THEN /\ state' = CachedCommit(state, inv[i].cachedQueryId,
                                      lessonsResult, relatedQuestionsResult)
             /\ inv' = [inv EXCEPT ![i] = [settled EXCEPT !.pc = "done",
                                                          !.outcome = "cached"]]
             /\ tasks' = StartTracking
        ELSE /\ state' = FreshPathState(state)
             /\ inv' = [inv EXCEPT ![i] = [settled EXCEPT !.pc = "awaitHealth"]]
             /\ tasks' = tasks
  /\ UNCHANGED <<contentVars, shellVars, cache, timers, nsub, ncb>>

\* Promise.allSettled of getLessons and getRelatedQuestions settles: lines 57-76,
\* then lines 83-91 when there are no lessons.
FetchSettles(i, lessonsOk, relatedOk) ==
  /\ inv[i].pc = "awaitFetch"
  /\ LET lessonsResult == IF lessonsOk THEN LessonsOf(inv[i].cachedQueryId) ELSE Null
         relatedQuestionsResult ==
           IF relatedOk THEN RelatedOf(inv[i].cachedQueryId) ELSE Null
         settled == [inv[i] EXCEPT !.lessonsResult = lessonsResult,
                                   !.relatedQuestionsResult = relatedQuestionsResult]
     IN IF Truthy(lessonsResult)
        THEN /\ state' = CachedCommit(state, inv[i].cachedQueryId,
                                      lessonsResult, relatedQuestionsResult)
             /\ inv' = [inv EXCEPT ![i] = [settled EXCEPT !.pc = "done",
                                                          !.outcome = "cached"]]
        ELSE /\ state' = FreshPathState(state)
             /\ inv' = [inv EXCEPT ![i] = [settled EXCEPT !.pc = "awaitHealth"]]
  /\ UNCHANGED <<contentVars, shellVars, tasks, cache, timers, nsub, ncb>>

\* Faulty variant: the catch of the health check queues no update.
HealthWarningSilent(prev) == prev

\* Lines 92-108: the updaters queued once healthCheck has settled.
HealthWarning(prev) ==
  SetProgress(prev, "Backend connection failed. Is the server running?")

\* Faulty variant: a failed health check is reported as an error.
AfterHealthSurfacing(prev, ok) ==
  IF ok
  THEN SetProgress(prev, "Submitting new query to backend...")
  ELSE [prev EXCEPT !.loading = FALSE,
                    !.error = "Backend connection failed. Is the server running?",
                    !.progress = Null]

AfterHealth(prev, ok) ==
  SetProgress(IF ok THEN prev ELSE HealthWarning(prev),
              "Submitting new query to backend...")

\* healthCheck settles: lines 91-116, up to the await of submitQueryAndWait.
HealthSettles(i, ok) ==
  /\ inv[i].pc = "awaitHealth"
  /\ state' = AfterHealth(state, ok)
  /\ tasks' = StartTracking
  /\ inv' = [inv EXCEPT ![i].pc = "awaitSubmit",
                         ![i].health = IF ok THEN "ok" ELSE "failed",
                         ![i].warning =
                            IF ok THEN Null ELSE HealthWarning(state).progress,
                         ![i].calls = @ + 1]
  /\ UNCHANGED <<contentVars, shellVars, cache, timers, nsub, ncb>>

\* The progress callback of lines 116-151.
ProgressCallback(i, progress) ==
  /\ inv[i].pc = "awaitSubmit"
  /\ ncb < MaxCallbacks
  /\ ncb' = ncb + 1
  /\ state' = SetProgress(state, progress)
  /\ tasks' = OnProgress(tasks, progress)
  /\ UNCHANGED <<contentVars, shellVars, cache, inv, timers, nsub>>

\* submitQueryAndWait resolves: lines 156-192, and 196-203 without a queryId.
SubmitResolves(i, result) ==
  /\ inv[i].pc = "awaitSubmit"
  /\ tasks' = StartFlashcards(Reconcile(tasks, result), result)
  /\ timers' = IF Truthy(result.lessons) THEN [timers EXCEPT ![1] = @ + 1] ELSE timers
  /\ IF Truthy(result.queryId)
     THEN /\ inv' = [inv EXCEPT ![i].pc = "awaitSave", ![i].result = result]
          /\ state' = state
     ELSE /\ inv' = [inv EXCEPT ![i].pc = "done", ![i].result = result,
                                 ![i].outcome = "success"]
          /\ state' = FinalCommit(state, result)
  /\ UNCHANGED <<contentVars, shellVars, cache, nsub, ncb>>

SubmitRejects(i, e) ==
  /\ inv[i].pc = "awaitSubmit"
  /\ ErrorPath(i, e)
  /\ UNCHANGED <<contentVars, shellVars, cache, timers, nsub, ncb>>

\* saveQueryMapping resolves: lines 192-203.
SaveResolves(i) ==
  /\ inv[i].pc = "awaitSave"
  /\ cache' = SaveQueryMapping(cache, inv[i].query, inv[i].result.queryId)
  /\ state' = FinalCommit(state, inv[i].result)
  /\ inv' = [inv EXCEPT ![i].pc = "done", ![i].outcome = "success"]
  /\ UNCHANGED <<contentVars, shellVars, tasks, timers, nsub, ncb>>

\* saveQueryMapping rejects: the await of line 192 is inside the outer try.
SaveRejects(i, e) ==
  /\ inv[i].pc = "awaitSave"
  /\ ErrorPath(i, e)
  /\ UNCHANGED <<contentVars, shellVars, cache, timers, nsub, ncb>>

\* One setTimeout callback of lines 170-187 fires and schedules the next.
TimerFires(stage) ==
  /\ timers[stage] > 0
  /\ tasks' = TimerEffect(tasks, stage)
  /\ timers' = [k \in TimerStages |->
                  IF k = stage THEN timers[k] - 1
                  ELSE IF k = stage + 1 THEN timers[k] + 1
                  ELSE timers[k]]
  /\ UNCHANGED <<contentVars, shellVars, state, cache, inv, nsub, ncb>>

(***************************************************************************)
(* clearError and reset.                                                   *)
(***************************************************************************)
ClearError ==
  /\ state' = ClearErrorUpdate(state)
  /\ UNCHANGED <<contentVars, shellVars, tasks, cache, inv, timers, nsub, ncb>>

\* Faulty variant: reset() spreads the previous state and so keeps its other fields.
ResetStateKeepsContent == [state EXCEPT !.loading = FALSE, !.error = Null]

\* The literal reset() sets: lines 240-247.
ResetState ==
  [loading |-> FALSE, error |-> Null, queryId |-> Null, lessons |-> Null,
   relatedQuestions |-> Null, progress |-> Null]

\* Faulty variant: reset() also clears the pending staging timers.
ResetClearsTimers ==
  /\ state' = ResetState
  /\ tasks' = ResetTracker
  /\ timers' = [k \in TimerStages |-> 0]
  /\ UNCHANGED <<contentVars, shellVars, cache, inv, nsub, ncb>>

Reset ==
  /\ state' = ResetState
  /\ tasks' = ResetTracker
  /\ UNCHANGED <<contentVars, shellVars, cache, inv, timers, nsub, ncb>>

(***************************************************************************)
(* Spec: submitQuery invocations follow one another (a new one starts only *)
(* when the previous one has ended); reset, clearError, progress callbacks *)
(* and staging timers interleave freely with them.                         *)
(***************************************************************************)
Next ==
  \/ \E q \in Queries : SubmitQuery(1, q)
  \/ \E i \in Invocations : CacheLookupResolves(i)
  \/ \E i \in Invocations, e \in Errors : CacheLookupRejects(i, e)
  \/ \E i \in Invocations, l \in BOOLEAN, r \in BOOLEAN : FetchSettles(i, l, r)
  \/ \E i \in Invocations, ok \in BOOLEAN : HealthSettles(i, ok)
  \/ \E i \in Invocations, m \in Messages : ProgressCallback(i, m)
  \/ \E i \in Invocations, r \in Results : SubmitResolves(i, r)
  \/ \E i \in Invocations, e \in Errors : SubmitRejects(i, e)
  \/ \E i \in Invocations : SaveResolves(i)
  \/ \E i \in Invocations, e \in Errors : SaveRejects(i, e)
  \/ \E k \in TimerStages : TimerFires(k)
  \/ ClearError
  \/ Reset

Spec == Init /\ [][Next]_vars

(***************************************************************************)
(* SeqSpec: the same workflow started in the state a first, successful     *)
(* submitQuery("gravity") leaves behind (cache miss, health check passed,  *)
(* result {queryId: "q2", lessons, relatedQuestions}, mapping saved, the   *)
(* four staging timers fired): the content fields and the Task Tracker     *)
(* then hold a previous query's values.                                    *)
(***************************************************************************)
PriorResult ==
  [queryId |-> "q2", lessons |-> LessonsOf("q2"), relatedQuestions |-> RelatedOf("q2")]

PriorState ==
  FinalCommit(AfterHealth(FreshPathState(BeginSubmit(InitialState)), TRUE), PriorResult)

PriorTasks ==
  TimerEffect(TimerEffect(TimerEffect(TimerEffect(
    StartFlashcards(Reconcile(StartTracking, PriorResult), PriorResult), 1), 2), 3), 4)

PriorInvocation ==
  [IdleInvocation EXCEPT !.pc = "done", !.query = "gravity", !.health = "ok",
                         !.result = PriorResult, !.calls = 1, !.outcome = "success"]

SeqInit ==
  /\ state = PriorState
  /\ tasks = PriorTasks
  /\ cache = SaveQueryMapping(InitialCache, "gravity", "q2")
  /\ inv = [i \in Invocations |-> IF i = 1 THEN PriorInvocation ELSE IdleInvocation]
  /\ timers = [k \in TimerStages |-> 0]
  /\ nsub = 0
  /\ ncb = 0
  /\ ContentIdle
  /\ ShellIdle

SeqSpec == SeqInit /\ [][Next]_vars

\* Spec reaches the state SeqSpec starts in (the call budgets apart).
PriorRunReached ==
  /\ state = PriorState
  /\ tasks = PriorTasks
  /\ cache = SaveQueryMapping(InitialCache, "gravity", "q2")
  /\ inv[1] = PriorInvocation
  /\ timers = [k \in TimerStages |-> 0]

(***************************************************************************)
(* Properties.                                                             *)
(***************************************************************************)
\* Invocation i leaves the suspension point `at` in this step.
Leaves(i, at) == inv[i].pc = at /\ inv'[i].pc # at

\* C1: when the cache lookup returned an id and the getLessons fetch for it
\* succeeded (getRelatedQuestions succeeding or not), the step that receives the
\* fetches ends the invocation with loading=false, queryId = the cached id,
\* lessons = the fetched lessons, relatedQuestions = the fetched value or null and
\* progress = "Cached content loaded!", and an invocation that ended on cached
\* content has never called submitQueryAndWait.
C1_CacheHitCommits ==
  /\ [][\A i \in Invocations :
          (Leaves(i, "awaitFetch") /\ Truthy(inv'[i].lessonsResult)) =>
             /\ inv'[i].pc = "done"
             /\ inv'[i].outcome = "cached"
             /\ inv'[i].lessonsResult = LessonsOf(inv[i].cachedQueryId)
             /\ inv'[i].relatedQuestionsResult \in {RelatedOf(inv[i].cachedQueryId), Null}
             /\ state'.loading = FALSE
             /\ state'.queryId = inv[i].cachedQueryId
             /\ state'.queryId = GetCachedQueryId(cache, inv[i].query)
             /\ state'.lessons = inv'[i].lessonsResult
             /\ state'.relatedQuestions = inv'[i].relatedQuestionsResult
             /\ state'.progress = "Cached content loaded!"
             /\ inv'[i].calls = 0]_vars
  /\ [](\A i \in Invocations :
          inv[i].outcome = "cached" => inv[i].pc = "done" /\ inv[i].calls = 0)

\* C1 witness: an invocation ended on cached lessons while the related-questions
\* fetch had failed.
C1_Witness ==
  \E i \in Invocations :
     /\ inv[i].outcome = "cached"
     /\ inv[i].relatedQuestionsResult = Null
     /\ state.queryId = "q1"
     /\ state.lessons = LessonsOf("q1")
     /\ state.relatedQuestions = Null
     /\ state.loading = FALSE
     /\ state.progress = "Cached content loaded!"

\* The lessons fetch of a cache hit has failed for invocation i.
FetchFailed(i) ==
  /\ Truthy(inv[i].cachedQueryId)
  /\ inv[i].pc \in {"awaitHealth", "awaitSubmit", "awaitSave", "done"}
  /\ ~Truthy(inv[i].lessonsResult)

\* C2: when the cache lookup returned an id but the getLessons fetch for it failed
\* (getRelatedQuestions succeeding or not), the step that receives the fetches
\* moves the invocation to the health check of the fresh-submission path without
\* touching error, loading or the Task Tracker; the invocation's next step is the
\* health check settling, which calls submitQueryAndWait; and from then on the
\* invocation has called submitQueryAndWait exactly once.
C2_FetchFailureFallsBack ==
  /\ [][\A i \in Invocations :
          (Leaves(i, "awaitFetch") /\ ~Truthy(inv'[i].lessonsResult)) =>
             /\ inv'[i].pc = "awaitHealth"
             /\ inv'[i].outcome = "none"
             /\ inv'[i].calls = 0
             /\ state'.error = state.error
             /\ state'.loading = state.loading
             /\ state'.progress = "Checking backend connection..."
             /\ tasks' = tasks]_vars
  /\ [][\A i \in Invocations :
          (Leaves(i, "awaitHealth") /\ FetchFailed(i)) =>
             /\ inv'[i].pc = "awaitSubmit"
             /\ inv'[i].calls = 1]_vars
  /\ [](\A i \in Invocations :
          FetchFailed(i) =>
             /\ inv[i].pc = "awaitHealth" => inv[i].calls = 0
             /\ inv[i].pc # "awaitHealth" => inv[i].calls = 1)

\* C2 witness: the lessons fetch failed although the related-questions fetch
\* succeeded, and the invocation is waiting for its one submission.
C2_Witness ==
  \E i \in Invocations :
     /\ FetchFailed(i)
     /\ inv[i].relatedQuestionsResult = RelatedOf("q1")
     /\ inv[i].pc = "awaitSubmit"
     /\ inv[i].calls = 1
     /\ state.error = Null
     /\ state.loading = TRUE

\* The final commit of invocation i happens in this step.
Commits(i) ==
  /\ inv[i].pc \in {"awaitSubmit", "awaitSave"}
  /\ inv'[i].outcome = "success"

\* C3: with invocations that do not overlap, the step that commits a resolved
\* submission (after the mapping is saved, when there is a queryId) leaves
\* QueryState at loading=false, error=null, queryId = the returned queryId,
\* lessons = the returned lessons or null, relatedQuestions = the returned related
\* questions or null, progress = "Query completed!".
C3_FinalState ==
  [][\A i \in Invocations :
       Commits(i) =>
          LET result == inv'[i].result IN
          /\ state' = [loading |-> FALSE,
                       error |-> Null,
                       queryId |-> result.queryId,
                       lessons |-> IF result.lessons = Undefined
                                   THEN Null ELSE result.lessons,
                       relatedQuestions |-> IF result.relatedQuestions = Undefined
                                            THEN Null ELSE result.relatedQuestions,
                       progress |-> "Query completed!"]
          /\ inv[i].pc = "awaitSave" =>
                /\ result = inv[i].result
                /\ cache'[inv[i].query] = result.queryId]_vars

\* C3 witness: a submission that returned lessons and no related questions has
\* been committed.
C3_Witness ==
  \E i \in Invocations :
     /\ inv[i].outcome = "success"
     /\ inv[i].result.relatedQuestions = Undefined
     /\ state = [loading |-> FALSE, error |-> Null, queryId |-> "q2",
                 lessons |-> LessonsOf("q2"), relatedQuestions |-> Null,
                 progress |-> "Query completed!"]

\* submitQueryAndWait resolves for invocation i in this step.
Resolves(i) == Leaves(i, "awaitSubmit") /\ inv'[i].outcome # "error"

\* C4: when the submission resolves with lessons and without related questions,
\* a RELATED_QUESTIONS task that is neither COMPLETED nor FAILED (or has no
\* record) becomes FAILED with reason "Related questions could not be generated",
\* and one that is COMPLETED or FAILED keeps its record; when lessons are absent
\* or related questions present, the RELATED_QUESTIONS record is left as it was.
C4_Reconciliation ==
  [][\A i \in Invocations :
       Resolves(i) =>
          LET result == inv'[i].result
              before == GetTaskByType(tasks, "RELATED_QUESTIONS")
              after  == GetTaskByType(tasks', "RELATED_QUESTIONS")
          IN IF /\ result.lessons # Undefined
                /\ result.relatedQuestions = Undefined
                /\ before.status \notin {"COMPLETED", "FAILED"}
             THEN /\ after.status = "FAILED"
                  /\ after.failureReason = "Related questions could not be generated"
             ELSE after = before]_vars

\* C4 witness: the submission resolved with lessons and without related questions
\* while RELATED_QUESTIONS had been failed by a "may take longer" message.
C4_Witness ==
  \E i \in Invocations :
     /\ inv[i].pc \in {"awaitSave", "done"}
     /\ inv[i].outcome # "error"
     /\ inv[i].result.lessons # Undefined
     /\ inv[i].result.relatedQuestions = Undefined
     /\ state.progress = "Related questions may take longer"
     /\ GetTaskByType(tasks, "RELATED_QUESTIONS").status = "FAILED"
     /\ GetTaskByType(tasks, "RELATED_QUESTIONS").failureReason
           = "Related questions are taking longer than expected"

\* The message the error path derives from each thrown value, written out.
ExpectedMessage(e) ==
  CASE e = [kind |-> "APIClientError", statusCode |-> 0, message |-> "ECONNREFUSED"]
         -> "Connection failed: ECONNREFUSED. Is the backend server running on the correct port?"
    [] e = [kind |-> "APIClientError", statusCode |-> 500,
            message |-> "Internal Server Error"]
         -> "Backend error (500): Internal Server Error"
    [] e = [kind |-> "Error", statusCode |-> 0, message |-> "boom"]
         -> "boom"
    [] OTHER -> "An unexpected error occurred"

\* C5: the step in which an invocation takes the error path sets loading=false and
\* progress=null, sets error to the message derived from the thrown value, leaves
\* queryId, lessons and relatedQuestions as they were, and empties the Task
\* Tracker.
C5_ErrorPath ==
  [][\A i \in Invocations :
       (inv[i].pc # "done" /\ inv'[i].outcome = "error") =>
          /\ inv'[i].pc = "done"
          /\ inv'[i].error \in Errors
          /\ state'.loading = FALSE
          /\ state'.progress = Null
          /\ state'.error = ExpectedMessage(inv'[i].error)
          /\ state'.queryId = state.queryId
          /\ state'.lessons = state.lessons
          /\ state'.relatedQuestions = state.relatedQuestions
          /\ tasks' = NoTasks]_vars

\* C5 witness: an invocation failed with a backend error while QueryState held
\* the content of the previous query.
C5_Witness ==
  \E i \in Invocations :
     /\ inv[i].outcome = "error"
     /\ inv[i].error.statusCode = 500
     /\ state = [loading |-> FALSE,
                 error |-> "Backend error (500): Internal Server Error",
                 queryId |-> "q2", lessons |-> LessonsOf("q2"),
                 relatedQuestions |-> RelatedOf("q2"), progress |-> Null]
     /\ tasks = NoTasks

\* C6 (as claimed): when saveQueryMapping settles, whether it resolved or
\* rejected, error and the Task Tracker are untouched and the result is committed
\* with loading=false and progress "Query completed!".
C6_SaveFailureNotSurfaced ==
  [][\A i \in Invocations :
       Leaves(i, "awaitSave") =>
          /\ state'.error = state.error
          /\ tasks' = tasks
          /\ state'.loading = FALSE
          /\ state'.queryId = inv[i].result.queryId
          /\ state'.lessons = OrNull(inv[i].result.lessons)
          /\ state'.relatedQuestions = OrNull(inv[i].result.relatedQuestions)
          /\ state'.progress = "Query completed!"]_vars

\* C7 (as claimed): whatever the cache lookup and the cached-content fetches do,
\* the step that receives them neither sets error nor resets the Task Tracker, and
\* the invocation goes on (to the fetches, to the health check, or ends on cached
\* content) and not to the error path.
C7_CacheProbeFailuresSwallowed ==
  [][\A i \in Invocations :
       (Leaves(i, "awaitCache") \/ Leaves(i, "awaitFetch")) =>
          /\ state'.error = state.error
          /\ tasks' = tasks
          /\ inv'[i].outcome # "error"]_vars

\* C8: when healthCheck fails, the step that receives the failure sets progress to
\* the warning "Backend connection failed. Is the server running?" (and, going on,
\* to the submitting text), leaves error and loading as they were, starts tracking
\* (the Task Tracker is not reset) and calls submitQueryAndWait; an invocation
\* whose health check resolved has set no warning; no invocation calls
\* submitQueryAndWait before its health check has settled, nor more than once.
C8_HealthFailureAdvisory ==
  /\ [][\A i \in Invocations :
          (Leaves(i, "awaitHealth") /\ inv'[i].health = "failed") =>
             /\ state'.error = state.error
             /\ state'.loading = state.loading
             /\ state'.queryId = state.queryId
             /\ state'.lessons = state.lessons
             /\ state'.relatedQuestions = state.relatedQuestions
             /\ inv'[i].warning = "Backend connection failed. Is the server running?"
             /\ state'.progress = "Submitting new query to backend..."
             /\ tasks' = StartTracking
             /\ tasks' # NoTasks
             /\ inv'[i].pc = "awaitSubmit"
             /\ inv'[i].outcome = "none"
             /\ inv[i].calls = 0
             /\ inv'[i].calls = 1]_vars
  /\ [](\A i \in Invocations :
          /\ inv[i].calls <= 1
          /\ inv[i].pc \in {"idle", "awaitCache", "awaitFetch", "awaitHealth"}
                => inv[i].calls = 0
          /\ inv[i].health = "failed" /\ inv[i].pc \in {"awaitSubmit", "awaitSave"}
                => inv[i].calls = 1
          /\ inv[i].health # "failed" => inv[i].warning = Null)

\* C8 witness: the health check failed and the submission is in flight.
C8_Witness ==
  \E i \in Invocations :
     /\ inv[i].health = "failed"
     /\ inv[i].warning = "Backend connection failed. Is the server running?"
     /\ inv[i].pc = "awaitSubmit"
     /\ inv[i].calls = 1
     /\ state.loading = TRUE
     /\ state.error = Null
     /\ state.progress = "Submitting new query to backend..."
     /\ tasks = StartTracking

\* A progress callback runs in this step; its text is the new progress.
CallbackRuns == ncb' = ncb + 1

LessonsReadyApplied(t) ==
  /\ GetTaskByType(t, "LESSONS").status = "COMPLETED"
  /\ HasTask(t, "FLASHCARDS")
  /\ t["FLASHCARDS"].progress >= 10

\* C9 (as claimed): after a progress callback whose text contains "Lessons ready",
\* whatever else the text contains, LESSONS is COMPLETED and FLASHCARDS is at 10%
\* or more.
C9_LessonsReadyAnyMessage ==
  [][(CallbackRuns /\ Includes(state'.progress, "Lessons ready"))
        => LessonsReadyApplied(tasks')]_vars

\* C9 (amended): after a progress callback whose text contains "Lessons ready" and
\* does not contain "submitted", LESSONS is COMPLETED and FLASHCARDS is at 10% or
\* more.
C9_LessonsReady ==
  [][(/\ CallbackRuns
      /\ Includes(state'.progress, "Lessons ready")
      /\ ~Includes(state'.progress, "submitted"))
        => LessonsReadyApplied(tasks')]_vars

\* C9 witness: the callback has just handled "Lessons ready".
C9_Witness ==
  /\ state.progress = "Lessons ready"
  /\ \E i \in Invocations : inv[i].pc = "awaitSubmit"
  /\ GetTaskByType(tasks, "LESSONS") =
        [status |-> "COMPLETED", progress |-> 100, failureReason |-> Null]
  /\ GetTaskByType(tasks, "FLASHCARDS").progress = 10
  /\ GetTaskByType(tasks, "RELATED_QUESTIONS").progress = 50

\* C10: whatever the state, the reset() step leaves QueryState equal to its
\* initial value and the Task Tracker empty.
C10_ResetRestoresInitial ==
  [][Reset => (state' = InitialState /\ tasks' = NoTasks /\ DOMAIN tasks' = {})]_vars

\* C10 witness: QueryState is initial and the Task Tracker empty while a
\* submission is in flight (the invocation had set loading and progress and
\* started tracking; only reset() undoes that without ending the invocation).
C10_Witness ==
  /\ state = InitialState
  /\ tasks = NoTasks
  /\ \E i \in Invocations : inv[i].pc = "awaitSubmit"

\* C11: whatever the state, the clearError() step sets error=null and leaves
\* loading, queryId, lessons, relatedQuestions, progress and the Task Tracker as
\* they were; a second clearError() right after it changes nothing.
C11_ClearErrorOnlyClearsError ==
  [][ClearError =>
        /\ state'.error = Null
        /\ state'.loading = state.loading
        /\ state'.queryId = state.queryId
        /\ state'.lessons = state.lessons
        /\ state'.relatedQuestions = state.relatedQuestions
        /\ state'.progress = state.progress
        /\ tasks' = tasks
        /\ ClearErrorUpdate(state') = state']_vars

\* C11 witness: the error of a failed invocation has been cleared while the
\* previous query's content is still there (reset() would have dropped it).
C11_Witness ==
  \E i \in Invocations :
     /\ inv[i].outcome = "error"
     /\ state = [loading |-> FALSE, error |-> Null, queryId |-> "q2",
                 lessons |-> LessonsOf("q2"), relatedQuestions |-> RelatedOf("q2"),
                 progress |-> Null]

\* Invocation i is suspended on a collaborator call whose continuation writes
\* QueryState.
InFlight(i) == inv[i].pc \notin {"idle", "done"}

\* C12 (as claimed): loading=false implies that no submitQuery invocation is
\* suspended on a collaborator call.
C12_NotLoadingMeansNothingPending ==
  state.loading = FALSE => \A i \in Invocations : ~InFlight(i)

(***************************************************************************)
(* FairSpec: one submitQuery call, made in the initial state or in the     *)
(* state a first successful query leaves, with reset, clearError, progress *)
(* callbacks and staging timers interleaved; every collaborator call the   *)
(* invocation awaits eventually settles (resolves or rejects).             *)
(***************************************************************************)
Settles(i) ==
  \/ CacheLookupResolves(i)
  \/ \E e \in Errors : CacheLookupRejects(i, e)
  \/ \E l \in BOOLEAN, r \in BOOLEAN : FetchSettles(i, l, r)
  \/ \E ok \in BOOLEAN : HealthSettles(i, ok)
  \/ \E r \in Results : SubmitResolves(i, r)
  \/ \E e \in Errors : SubmitRejects(i, e)
  \/ SaveResolves(i)
  \/ \E e \in Errors : SaveRejects(i, e)

\* One submitQuery call, made when none has been made yet.
FirstSubmit == nsub = 0 /\ \E q \in Queries : SubmitQuery(1, q)

\* What runs between the steps of an invocation without being one of them.
Background ==
  \/ \E i \in Invocations, m \in Messages : ProgressCallback(i, m)
  \/ \E k \in TimerStages : TimerFires(k)
  \/ ClearError

OneNext ==
  \/ FirstSubmit
  \/ \E i \in Invocations : Settles(i)
  \/ Background
  \/ Reset

FairSpec ==
  /\ Init \/ SeqInit
  /\ [][OneNext]_vars
  /\ \A i \in Invocations : WF_vars(Settles(i))

\* The step in which invocation i ends.
Ends(i) == InFlight(i) /\ inv'[i].pc = "done"

\* C16: an invocation whose awaited calls settle eventually ends; the step in
\* which it ends is its terminal write (cached-content commit, success commit or
\* error commit) and leaves loading=false; its earlier steps leave loading as it
\* was, and once ended it takes no step until submitQuery is called again.
C16_OneTerminalWrite ==
  /\ \A i \in Invocations : InFlight(i) ~> (inv[i].pc = "done")
  /\ [][\A i \in Invocations :
          /\ Ends(i) =>
                /\ state'.loading = FALSE
                /\ \/ inv'[i].outcome = "cached"
                      /\ state'.progress = "Cached content loaded!"
                   \/ inv'[i].outcome = "success"
                      /\ state'.progress = "Query completed!"
                   \/ inv'[i].outcome = "error"
                      /\ state'.error = ErrorMessage(inv'[i].error)
                      /\ state'.progress = Null
          /\ (InFlight(i) /\ inv'[i] # inv[i] /\ ~Ends(i)) =>
                /\ state'.loading = state.loading
                /\ inv'[i].outcome = "none"
          /\ (inv[i].pc = "done" /\ inv'[i] # inv[i]) =>
                /\ inv'[i].pc = "awaitCache"
                /\ nsub' = nsub + 1]_vars

\* C16 witness: an invocation went through cache lookup, failed content fetch,
\* health check, submission and mapping save, and its commit left loading=false.
C16_Witness ==
  \E i \in Invocations :
     /\ inv[i].pc = "done"
     /\ inv[i].outcome = "success"
     /\ FetchFailed(i)
     /\ Truthy(inv[i].result.queryId)
     /\ state.loading = FALSE

(***************************************************************************)
(* StagingSpec: a single workflow (one submitQuery call, no reset); every   *)
(* setTimeout callback that is pending eventually runs.                    *)
(***************************************************************************)
StagingNext ==
  \/ FirstSubmit
  \/ \E i \in Invocations : Settles(i)
  \/ Background

StagingSpec ==
  /\ Init
  /\ [][StagingNext]_vars
  /\ \A k \in TimerStages : WF_vars(TimerFires(k))

\* Exactly the staging timer of this stage is pending (stage 5: none is).
OnlyPending(tm, stage) == tm = [k \in TimerStages |-> IF k = stage THEN 1 ELSE 0]

InProgressAt(t, type, p) ==
  /\ GetTaskByType(t, type).status = "IN_PROGRESS"
  /\ GetTaskByType(t, type).progress = p

SameTask(type) == GetTaskByType(tasks', type) = GetTaskByType(tasks, type)

\* A setTimeout callback of the staging runs.
TimerStep == timers' # timers /\ inv' = inv

\* The QUIZ record is written with a progress or a completion.
QuizUpdated ==
  /\ ~SameTask("QUIZ")
  /\ GetTaskByType(tasks', "QUIZ").status \in {"IN_PROGRESS", "COMPLETED"}

\* C17: in a single workflow, the step that receives a result with lessons puts
\* FLASHCARDS at 50% (with the final commit, when it is still to come, not yet
\* made) and schedules the first timer only; the timers then run one at a time in
\* the order FLASHCARDS 80%, FLASHCARDS COMPLETED with QUIZ 30%, QUIZ 70%, QUIZ
\* COMPLETED; QUIZ is only ever updated by the second timer or a later one, and
\* the second completes FLASHCARDS in the same step; once a timer is pending QUIZ
\* eventually becomes COMPLETED.  A result without lessons schedules no timer and
\* leaves FLASHCARDS and QUIZ alone, and no timer is pending unless a result with
\* lessons was received.
C17_StagingOrder ==
  /\ [][\A i \in Invocations :
          Resolves(i) =>
            IF Truthy(inv'[i].result.lessons)
            THEN /\ InProgressAt(tasks', "FLASHCARDS", 50)
                 /\ SameTask("QUIZ")
                 /\ OnlyPending(timers', 1)
                 /\ inv'[i].pc = "awaitSave" => state' = state
            ELSE /\ timers' = timers
                 /\ SameTask("FLASHCARDS")
                 /\ SameTask("QUIZ")]_vars
  /\ [][TimerStep =>
          \E k \in TimerStages :
             /\ OnlyPending(timers, k)
             /\ OnlyPending(timers', k + 1)
             /\ state' = state
             /\ CASE k = 1 -> InProgressAt(tasks', "FLASHCARDS", 80) /\ SameTask("QUIZ")
                  [] k = 2 -> /\ GetTaskByType(tasks', "FLASHCARDS").status = "COMPLETED"
                              /\ InProgressAt(tasks', "QUIZ", 30)
                  [] k = 3 -> InProgressAt(tasks', "QUIZ", 70) /\ SameTask("FLASHCARDS")
                  [] OTHER -> /\ GetTaskByType(tasks', "QUIZ").status = "COMPLETED"
                              /\ SameTask("FLASHCARDS")]_vars
  /\ [][QuizUpdated =>
          /\ TimerStep
          /\ timers[1] = 0
          /\ \/ GetTaskByType(tasks', "FLASHCARDS").status = "COMPLETED"
             \/ \E i \in Invocations : inv[i].outcome = "error"]_vars
  /\ [](timers # [k \in TimerStages |-> 0] =>
          \E i \in Invocations : Truthy(inv[i].result.lessons))
  /\ (timers # [k \in TimerStages |-> 0]) ~> (StatusOf(tasks, "QUIZ") = "COMPLETED")

\* C17 witness: the workflow committed a result with lessons and the four timers
\* have run: FLASHCARDS and QUIZ are COMPLETED.
C17_Witness ==
  /\ \E i \in Invocations :
        /\ inv[i].outcome = "success"
        /\ Truthy(inv[i].result.lessons)
  /\ state.progress = "Query completed!"
  /\ timers = [k \in TimerStages |-> 0]
  /\ StatusOf(tasks, "FLASHCARDS") = "COMPLETED"
  /\ StatusOf(tasks, "QUIZ") = "COMPLETED"

\* Invocation i takes the error path.
Fails(i) == InFlight(i) /\ inv'[i].outcome = "error"

\* Invocation i takes a step on the cache-hit path: the lookup returns an id, or
\* the content fetched for it is committed.
CacheHitStep(i) ==
  \/ Leaves(i, "awaitCache") /\ inv'[i].pc = "awaitFetch"
  \/ Leaves(i, "awaitFetch") /\ inv'[i].outcome = "cached"

\* C20: the steps of an invocation on the cache-hit path (as the step that starts
\* an invocation) leave the Task Tracker, the Offline Cache and the staging timers
\* as they were; the cached-content commit leaves error=null; and an invocation
\* that ended on cached content has called neither healthCheck nor
\* submitQueryAndWait.
C20_CacheHitNoSideEffects ==
  /\ [][\A i \in Invocations :
          /\ (CacheHitStep(i) \/ Leaves(i, "done") \/ Leaves(i, "idle")) =>
                /\ tasks' = tasks
                /\ cache' = cache
                /\ timers' = timers
          /\ (Leaves(i, "awaitFetch") /\ inv'[i].outcome = "cached") =>
                state'.error = Null]_vars
  /\ [](\A i \in Invocations :
          inv[i].outcome = "cached" =>
            /\ inv[i].health = "none"
            /\ inv[i].calls = 0
            /\ inv[i].error = NoError)

\* C20 witness: an invocation ended on cached content with the task records of
\* the previous query still in place.
C20_Witness ==
  \E i \in Invocations :
     /\ inv[i].outcome = "cached"
     /\ inv[i].query = "photosynthesis"
     /\ state.queryId = "q1"
     /\ state.error = Null
     /\ tasks = PriorTasks
     /\ StatusOf(tasks, "QUIZ") = "COMPLETED"

(***************************************************************************)
(* OverlapSpec: submitQuery(A) is called, and while that invocation is     *)
(* suspended submitQuery(B) is called (nothing in the hook prevents it);   *)
(* both run to their end, their continuations and progress callbacks       *)
(* interleaving freely.  The staging timers, which write the Task Tracker  *)
(* only, are left pending.                                                 *)
(***************************************************************************)
A == 1
B == 2

\* Lines 37-42 run for B while A is suspended.
SubmitQueryWhilePending(query) ==
  /\ InFlight(A)
  /\ inv[B].pc = "idle"
  /\ state' = BeginSubmit(state)
  /\ inv' = [inv EXCEPT ![B] = [IdleInvocation EXCEPT !.pc = "awaitCache",
                                                       !.query = query]]
  /\ UNCHANGED <<contentVars, shellVars, tasks, cache, timers, nsub, ncb>>

OverlapNext ==
  \/ FirstSubmit
  \/ \E q \in Queries : SubmitQueryWhilePending(q)
  \/ \E i \in Invocations : Settles(i)
  \/ \E i \in Invocations, m \in Messages : ProgressCallback(i, m)

OverlapSpec == Init /\ [][OverlapNext]_vars

SameContent ==
  /\ state'.queryId = state.queryId
  /\ state'.lessons = state.lessons
  /\ state'.relatedQuestions = state.relatedQuestions

\* C19: with submitQuery(B) called while submitQuery(A) is suspended, every
\* terminal write overwrites what the other invocation wrote and keeps the rest:
\* a commit stores the committing invocation's own queryId, lessons and related
\* questions with its progress text and leaves error as it was (an error the other
\* invocation set stays), and the error path stores its message and leaves the
\* content as it was (content the other invocation committed stays); starting B
\* changes nothing of A.
C19_LastWriterWins ==
  [][/\ \A i \in Invocations :
          /\ Commits(i) =>
                /\ state'.queryId = inv'[i].result.queryId
                /\ state'.lessons = OrNull(inv'[i].result.lessons)
                /\ state'.relatedQuestions = OrNull(inv'[i].result.relatedQuestions)
                /\ state'.progress = "Query completed!"
                /\ state'.error = state.error
          /\ (Leaves(i, "awaitFetch") /\ inv'[i].outcome = "cached") =>
                /\ state'.queryId = inv[i].cachedQueryId
                /\ state'.lessons = inv'[i].lessonsResult
                /\ state'.relatedQuestions = inv'[i].relatedQuestionsResult
                /\ state'.progress = "Cached content loaded!"
                /\ state'.error = state.error
          /\ Fails(i) =>
                /\ state'.error = ErrorMessage(inv'[i].error)
                /\ state'.progress = Null
                /\ SameContent
     /\ Leaves(B, "idle") =>
          /\ inv'[A] = inv[A]
          /\ InFlight(A)
          /\ state' = BeginSubmit(state)]_vars

\* C19 witness: B (submitted last) failed first and A committed after it: the
\* error B set stands next to A's content and "Query completed!".
C19_Witness ==
  /\ inv[A].outcome = "success"
  /\ inv[B].outcome = "error"
  /\ inv[B].query = "gravity"
  /\ state = [loading |-> FALSE, error |-> ErrorMessage(inv[B].error),
              queryId |-> inv[A].result.queryId,
              lessons |-> LessonsOf("q2"),
              relatedQuestions |-> OrNull(inv[A].result.relatedQuestions),
              progress |-> "Query completed!"]

\* Also reached under OverlapSpec: both invocations succeeded and the content is
\* A's (committed last) although B was submitted last.
StaleContentOfA ==
  /\ inv[A].outcome = "success"
  /\ inv[B].outcome = "cached"
  /\ state.queryId = "q2"
  /\ state.queryId # inv[B].cachedQueryId
  /\ state.progress = "Query completed!"

(***************************************************************************)
(* Content Fetch Workflow: getFlashcards and getQuiz of useQueryContent.   *)
(***************************************************************************)
MaxFetches == 2

QueryIds == {"q1", "q2"}

LessonIndexes == {0, 1}

\* The argument lists of a call: (queryId) or (queryId, lessonIndex).
FetchArgs ==
  {<<q>> : q \in QueryIds} \cup {<<q, l>> : q \in QueryIds, l \in LessonIndexes}

\* The API Client call getFlashcards makes: lines 277-279.
GetFlashcardsCall(args) ==
  IF Len(args) >= 2
  THEN [name |-> "getFlashcardsByLesson", args |-> args]
  ELSE [name |-> "getFlashcards", args |-> <<args[1]>>]

\* The API Client call getQuiz makes, lessonIndex defaulting to 0: lines 297, 302.
GetQuizCall(args) ==
  [name |-> "getQuiz", args |-> <<args[1], IF Len(args) >= 2 THEN args[2] ELSE 0>>]

ApiCall(op, args) ==
  IF op = "getFlashcards" THEN GetFlashcardsCall(args) ELSE GetQuizCall(args)

\* The ContentResponse an API Client call resolves with.
ContentResponse(call) ==
  call.name \o "(" \o call.args[1]
    \o (IF Len(call.args) >= 2 THEN "," \o ToString(call.args[2]) ELSE "") \o ")"

FallbackMessage(op) ==
  IF op = "getFlashcards" THEN "Failed to get flashcards" ELSE "Failed to get quiz"

\* Faulty variant: the caught error's message is used whatever was thrown.
FetchErrorMessageAlwaysMessage(op, e) == e.message

\* Lines 283-289 and 306-312.
FetchErrorMessage(op, e) ==
  IF e.kind = "APIClientError" THEN e.message
  ELSE IF e.kind = "Error" THEN e.message
  ELSE FallbackMessage(op)

\* getFlashcards / getQuiz is called: lines 273-279, 298-302.
BeginFetch(op, args) ==
  /\ fetch.pc \in {"idle", "returned"}
  /\ nfetch < MaxFetches
  /\ nfetch' = nfetch + 1
  /\ content' = [loading |-> TRUE, error |-> Null]
  /\ fetch' = [NoFetch EXCEPT !.pc = "awaitApi", !.op = op, !.args = args,
                              !.call = ApiCall(op, args)]
  /\ UNCHANGED <<queryVars, shellVars>>

\* The API Client call resolves: lines 280-281, 303-304.
FetchResolves ==
  /\ fetch.pc = "awaitApi"
  /\ content' = [content EXCEPT !.loading = FALSE]
  /\ fetch' = [fetch EXCEPT !.pc = "returned", !.returned = ContentResponse(fetch.call)]
  /\ UNCHANGED <<queryVars, shellVars, nfetch>>

\* The API Client call rejects: lines 282-294, 305-317.
FetchRejects(e) ==
  /\ fetch.pc = "awaitApi"
  /\ content' = [loading |-> FALSE, error |-> FetchErrorMessage(fetch.op, e)]
  /\ fetch' = [fetch EXCEPT !.pc = "returned", !.thrown = e, !.returned = Null]
  /\ UNCHANGED <<queryVars, shellVars, nfetch>>

ContentNext ==
  \/ \E args \in FetchArgs : BeginFetch("getFlashcards", args)
  \/ \E args \in FetchArgs : BeginFetch("getQuiz", args)
  \/ FetchResolves
  \/ \E e \in Errors : FetchRejects(e)

(***************************************************************************)
(* ContentSpec: getFlashcards and getQuiz calls that follow one another.   *)
(***************************************************************************)
ContentSpec == Init /\ [][ContentNext]_vars

\* C13: a getFlashcards or getQuiz call sets loading=true and error=null at entry
\* and asks the API Client for the flashcards of the lesson (or of the query, or
\* for the quiz of the lesson, 0 by default); when the API call resolves, the call
\* returns its payload with loading=false and error still null; when it rejects,
\* the call returns null with loading=false and error = the thrown error's message
\* (APIClientError or Error), or "Failed to get flashcards" / "Failed to get quiz"
\* for anything else thrown.
C13_ContentFetch ==
  /\ [][/\ nfetch' # nfetch =>
             /\ content' = [loading |-> TRUE, error |-> Null]
             /\ fetch'.pc = "awaitApi"
             /\ fetch'.call.name =
                   IF fetch'.op = "getQuiz" THEN "getQuiz"
                   ELSE IF Len(fetch'.args) = 2 THEN "getFlashcardsByLesson"
                   ELSE "getFlashcards"
             /\ fetch'.call.args[1] = fetch'.args[1]
             /\ Len(fetch'.args) = 2 => fetch'.call.args = fetch'.args
             /\ (Len(fetch'.args) = 1 /\ fetch'.op = "getQuiz") =>
                   fetch'.call.args = <<fetch'.args[1], 0>>
        /\ (fetch.pc = "awaitApi" /\ fetch'.pc = "returned") =>
             /\ content'.loading = FALSE
             /\ IF fetch'.thrown = NoError
                THEN /\ fetch'.returned = ContentResponse(fetch.call)
                     /\ content'.error = Null
                ELSE /\ fetch'.returned = Null
                     /\ content'.error =
                           IF fetch'.thrown.kind \in {"APIClientError", "Error"}
                           THEN fetch'.thrown.message
                           ELSE IF fetch.op = "getFlashcards"
                                THEN "Failed to get flashcards"
                                ELSE "Failed to get quiz"]_vars
  /\ [](fetch.pc = "awaitApi" => content = [loading |-> TRUE, error |-> Null])

\* C13 witness: a getQuiz call made without a lesson index, after a call that had
\* failed, returned null because the API Client threw something that is no Error.
C13_Witness ==
  /\ nfetch = 2
  /\ fetch.pc = "returned"
  /\ fetch.op = "getQuiz"
  /\ Len(fetch.args) = 1
  /\ fetch.thrown.kind = "other"
  /\ fetch.returned = Null
  /\ content = [loading |-> FALSE, error |-> "Failed to get quiz"]

(***************************************************************************)
(* App Shell: the view switch and its handlers (AppShell.tsx).             *)
(***************************************************************************)
MaxStep == 2

MaxPending == 1

Topics == {"gravity", "optics"}

Explanations == {"explanation"}

FlashcardSets == {<<"card">>}

\* Lesson-progress entries {topic, queryId, createdAt, lastStepIndex}.
EntryGravity ==
  [topic |-> "gravity", queryId |-> "q1", createdAt |-> 1, lastStepIndex |-> 2]

EntryOptics ==
  [topic |-> "optics", queryId |-> "q2", createdAt |-> 2, lastStepIndex |-> 1]

EntryGravityAgain ==
  [topic |-> "gravity", queryId |-> "q3", createdAt |-> 3, lastStepIndex |-> 0]

EntrySameDate ==
  [topic |-> "optics", queryId |-> "q4", createdAt |-> 1, lastStepIndex |-> 1]

\* The lists useLessonProgress may hand out: none, one entry, two entries in
\* either order, two entries of one topic, two entries created at the same time.
InitialLists ==
  { <<>>, <<EntryGravity>>, <<EntryGravity, EntryOptics>>, <<EntryOptics, EntryGravity>>,
    <<EntryGravity, EntryGravityAgain>>, <<EntryGravity, EntrySameDate>> }

\* lessonProgressList.find(lesson => lesson.topic === topic): the index of the
\* first entry of the topic, 0 when there is none.
FindLesson(list, topic) ==
  LET hits == {k \in 1..Len(list) : list[k].topic = topic}
  IN IF hits = {} THEN 0 ELSE CHOOSE k \in hits : \A j \in hits : k <= j

\* getLastAccessedLesson(queryId): the last-accessed step recorded for the query.
GetLastAccessedLesson(list, queryId) ==
  LET hits == {k \in 1..Len(list) : list[k].queryId = queryId}
  IN IF hits = {} THEN 0 ELSE list[CHOOSE k \in hits : TRUE].lastStepIndex

\* markLessonAccessed(queryId, stepIndex).
MarkLessonAccessed(list, queryId, stepIndex) ==
  [k \in 1..Len(list) |->
     IF list[k].queryId = queryId
     THEN [list[k] EXCEPT !.lastStepIndex = stepIndex] ELSE list[k]]

\* Array.prototype.sort with the comparator of lines 73-74 (descending createdAt;
\* the sort is stable): e goes behind the entries that are not older than it.
InsertByCreatedAt(sorted, e) ==
  LET n == Cardinality({j \in 1..Len(sorted) : sorted[j].createdAt >= e.createdAt})
  IN SubSeq(sorted, 1, n) \o <<e>> \o SubSeq(sorted, n + 1, Len(sorted))

RECURSIVE SortByCreatedAtDesc(_)
SortByCreatedAtDesc(list) ==
  IF list = <<>> THEN <<>>
  ELSE InsertByCreatedAt(SortByCreatedAtDesc(SubSeq(list, 1, Len(list) - 1)),
                         list[Len(list)])

RemoveAt(seq, n) == SubSeq(seq, 1, n - 1) \o SubSeq(seq, n + 1, Len(seq))

\* The pages that receive each handler: lines 131-215.
PagesStartExploration == {"home", "explore", "library", "lessons"}
PagesBackToHome == {"explore", "library", "lessons", "explanation", "quiz"}
PagesShowLibrary == {"home", "explore", "lessons", "explanation", "flashcards", "quiz"}
PagesShowExplore == {"home", "library", "lessons", "explanation"}
PagesShowLessons == {"home", "explore", "library", "explanation"}
PagesShowExplanation == {"home", "explore", "library", "lessons"}

\* Lines 23-38 up to the await (an entry of the topic exists) or to the end (none
\* exists), reading the array `list`.
StartExploration(list, topic, fromLessonContinue, caller) ==
  LET k == FindLesson(list, topic) IN
  IF k # 0
  THEN /\ Len(exploring) < MaxPending
       /\ shell' = [shell EXCEPT !.currentTopic = topic]
       /\ exploring' = Append(exploring,
                              [topic |-> topic, queryId |-> list[k].queryId,
                               fromLessonContinue |-> fromLessonContinue,
                               caller |-> caller])
  ELSE /\ shell' = [shell EXCEPT !.currentTopic = topic,
                                  !.currentStepIndex = 0,
                                  !.isUserQuery = ~fromLessonContinue,
                                  !.currentState = "explanation"]
       /\ exploring' = exploring

HandleStartExploration(topic, fromLessonContinue) ==
  /\ shell.currentState \in PagesStartExploration
  /\ StartExploration(lessonProgressList, topic, fromLessonContinue, "page")
  /\ UNCHANGED <<queryVars, contentVars, lessonProgressList>>

\* getLastAccessedLesson resolves for the n-th suspended invocation: lines 29-31, 38.
LastAccessedResolves(n) ==
  /\ n \in 1..Len(exploring)
  /\ shell' = [shell EXCEPT
                 !.currentStepIndex =
                    GetLastAccessedLesson(lessonProgressList, exploring[n].queryId),
                 !.isUserQuery = TRUE,
                 !.currentState = "explanation"]
  /\ exploring' = RemoveAt(exploring, n)
  /\ UNCHANGED <<queryVars, contentVars, lessonProgressList>>

HandleBackToHome ==
  /\ shell.currentState \in PagesBackToHome
  /\ shell' = [shell EXCEPT !.currentState = "home", !.currentTopic = "",
                            !.currentExplanation = Null, !.currentFlashcards = <<>>,
                            !.currentStepIndex = 0]
  /\ UNCHANGED <<queryVars, contentVars, lessonProgressList, exploring>>

HandleShowLibrary ==
  /\ shell.currentState \in PagesShowLibrary
  /\ shell' = [shell EXCEPT !.currentState = "library"]
  /\ UNCHANGED <<queryVars, contentVars, lessonProgressList, exploring>>

HandleShowExplore ==
  /\ shell.currentState \in PagesShowExplore
  /\ shell' = [shell EXCEPT !.currentState = "explore"]
  /\ UNCHANGED <<queryVars, contentVars, lessonProgressList, exploring>>

HandleShowLessons ==
  /\ shell.currentState \in PagesShowLessons
  /\ shell' = [shell EXCEPT !.currentState = "lessons"]
  /\ UNCHANGED <<queryVars, contentVars, lessonProgressList, exploring>>

\* Lines 61-83; the sort of line 73 reorders the array in place.
HandleShowExplanation ==
  /\ shell.currentState \in PagesShowExplanation
  /\ IF shell.currentTopic # ""
     THEN /\ shell' = [shell EXCEPT !.currentState = "explanation"]
          /\ UNCHANGED <<lessonProgressList, exploring>>
     ELSE IF Len(lessonProgressList) > 0
          THEN LET sorted == SortByCreatedAtDesc(lessonProgressList) IN
               /\ lessonProgressList' = sorted
               /\ StartExploration(sorted, sorted[1].topic, TRUE, "handleShowExplanation")
          ELSE /\ shell' = [shell EXCEPT !.currentState = "home"]
               /\ UNCHANGED <<lessonProgressList, exploring>>
  /\ UNCHANGED <<queryVars, contentVars>>

HandleGenerateFlashcards(explanation) ==
  /\ shell.currentState = "explanation"
  /\ shell' = [shell EXCEPT !.currentExplanation = explanation,
                            !.currentState = "flashcards"]
  /\ UNCHANGED <<queryVars, contentVars, lessonProgressList, exploring>>

HandleStartQuiz(flashcards) ==
  /\ shell.currentState = "flashcards"
  /\ shell' = [shell EXCEPT !.currentFlashcards = flashcards, !.currentState = "quiz"]
  /\ UNCHANGED <<queryVars, contentVars, lessonProgressList, exploring>>

HandleBackToExplanation ==
  /\ shell.currentState = "flashcards"
  /\ shell' = [shell EXCEPT !.currentState = "explanation"]
  /\ UNCHANGED <<queryVars, contentVars, lessonProgressList, exploring>>

HandleBackToFlashcards ==
  /\ shell.currentState = "quiz"
  /\ shell' = [shell EXCEPT !.currentState = "flashcards"]
  /\ UNCHANGED <<queryVars, contentVars, lessonProgressList, exploring>>

\* Lines 112-115 and 125-128: the access is recorded for the first entry of the
\* current topic, when there is one.
TrackAccess(stepIndex) ==
  LET k == FindLesson(lessonProgressList, shell.currentTopic) IN
  IF k # 0
  THEN MarkLessonAccessed(lessonProgressList, lessonProgressList[k].queryId, stepIndex)
  ELSE lessonProgressList

HandleNextStep ==
  /\ shell.currentState = "quiz"
  /\ shell.currentStepIndex < MaxStep
  /\ shell' = [shell EXCEPT !.currentStepIndex = shell.currentStepIndex + 1,
                            !.currentState = "explanation",
                            !.currentFlashcards = <<>>]
  /\ lessonProgressList' = TrackAccess(shell.currentStepIndex + 1)
  /\ UNCHANGED <<queryVars, contentVars, exploring>>

HandleStepNavigation(stepIndex) ==
  /\ shell.currentState = "explanation"
  /\ shell' = [shell EXCEPT !.currentStepIndex = stepIndex,
                            !.currentState = "explanation",
                            !.currentExplanation = Null,
                            !.currentFlashcards = <<>>]
  /\ lessonProgressList' = TrackAccess(stepIndex)
  /\ UNCHANGED <<queryVars, contentVars, exploring>>

ShellNext ==
  \/ \E t \in Topics, f \in BOOLEAN : HandleStartExploration(t, f)
  \/ \E n \in 1..MaxPending : LastAccessedResolves(n)
  \/ HandleBackToHome
  \/ HandleShowLibrary
  \/ HandleShowExplore
  \/ HandleShowLessons
  \/ HandleShowExplanation
  \/ \E e \in Explanations : HandleGenerateFlashcards(e)
  \/ \E f \in FlashcardSets : HandleStartQuiz(f)
  \/ HandleBackToExplanation
  \/ HandleBackToFlashcards
  \/ HandleNextStep
  \/ \E k \in 0..MaxStep : HandleStepNavigation(k)

ShellInit ==
  /\ QueryIdle
  /\ ContentIdle
  /\ shell = InitialShell
  /\ lessonProgressList \in InitialLists
  /\ exploring = <<>>

(***************************************************************************)
(* ShellSpec: the handlers run as the user reaches them from the page on   *)
(* view; a handleStartExploration suspended on getLastAccessedLesson       *)
(* resumes at any later time.                                              *)
(***************************************************************************)
ShellSpec == ShellInit /\ [][ShellNext]_vars

\* What handleStartExploration(topic, _, fromLessonContinue) is claimed to leave.
ExploringCurrentTopic(topic) ==
  /\ shell'.currentState = "explanation"
  /\ shell'.currentTopic = topic

\* The invocation that finds no entry of the topic ends in the step it is called.
EndsAtOnce(topic, fromLessonContinue) ==
  FindLesson(lessonProgressList, topic) = 0 =>
    /\ ExploringCurrentTopic(topic)
    /\ shell'.currentStepIndex = 0
    /\ shell'.isUserQuery = ~fromLessonContinue

\* The invocation that found an entry ends when getLastAccessedLesson resolves.
EndsResumed(n) ==
  /\ shell'.currentState = "explanation"
  /\ shell'.currentStepIndex =
        GetLastAccessedLesson(lessonProgressList, exploring[n].queryId)
  /\ shell'.isUserQuery = TRUE

\* C14 (as claimed): every handleStartExploration(topic, _, fromLessonContinue)
\* invocation ends with the view "explanation" and currentTopic = topic; with an
\* entry of the topic, currentStepIndex is the step recorded for the entry's
\* queryId and isUserQuery is true; without one, currentStepIndex is 0 and
\* isUserQuery is the negation of fromLessonContinue.
C14_StartExploration ==
  [][/\ \A t \in Topics, f \in BOOLEAN :
          HandleStartExploration(t, f) => EndsAtOnce(t, f)
     /\ \A n \in 1..MaxPending :
          LastAccessedResolves(n) =>
            /\ EndsResumed(n)
            /\ shell'.currentTopic = exploring[n].topic]_vars

\* The same, for the invocations during whose suspension no other handler wrote
\* currentTopic; it holds under ShellSpec.
StartExplorationUndisturbed ==
  [][/\ \A t \in Topics, f \in BOOLEAN :
          HandleStartExploration(t, f) =>
            /\ EndsAtOnce(t, f)
            /\ shell'.currentTopic = t
     /\ \A n \in 1..MaxPending :
          LastAccessedResolves(n) =>
            /\ EndsResumed(n)
            /\ shell'.currentTopic = shell.currentTopic
            /\ exploring[n].queryId =
                  lessonProgressList[FindLesson(lessonProgressList,
                                                exploring[n].topic)].queryId]_vars

\* The entry of query id is one with the greatest createdAt of the list.
MostRecent(list, id) ==
  \E k \in 1..Len(list) :
     /\ list[k].queryId = id
     /\ \A j \in 1..Len(list) : list[j].createdAt <= list[k].createdAt

\* handleShowExplanation with a current topic, and without one and without
\* entries: the step in which it is called.
ShowsExplanationAtOnce ==
  /\ shell.currentTopic # "" =>
        /\ shell' = [shell EXCEPT !.currentState = "explanation"]
        /\ exploring' = exploring
  /\ (shell.currentTopic = "" /\ lessonProgressList = <<>>) =>
        /\ shell'.currentState = "home"
        /\ exploring' = exploring

\* handleShowExplanation without a current topic and with entries: it starts an
\* exploration of the topic of an entry with the greatest createdAt.
StartsResume ==
  (shell.currentTopic = "" /\ lessonProgressList # <<>>) =>
     /\ exploring' # exploring
     /\ LET p == exploring'[Len(exploring')] IN
          /\ p.caller = "handleShowExplanation"
          /\ MostRecent(lessonProgressList, p.queryId)
          /\ shell'.currentTopic = p.topic
          /\ \E k \in 1..Len(lessonProgressList) :
                /\ lessonProgressList[k].queryId = p.queryId
                /\ lessonProgressList[k].topic = p.topic

\* C15 (as claimed): handleShowExplanation with a current topic only switches the
\* view to "explanation"; without a current topic and without entries it switches
\* the view to "home"; without a current topic and with entries it resumes the
\* entry with the greatest createdAt: it ends with the view "explanation",
\* currentTopic that entry's topic and currentStepIndex its last-accessed step.
C15_ShowExplanation ==
  [][/\ HandleShowExplanation => (ShowsExplanationAtOnce /\ StartsResume)
     /\ \A n \in 1..MaxPending :
          (LastAccessedResolves(n) /\ exploring[n].caller = "handleShowExplanation") =>
            /\ EndsResumed(n)
            /\ shell'.currentTopic = exploring[n].topic]_vars

\* The same, for the invocations during whose suspension no other handler wrote
\* currentTopic; it holds under ShellSpec.
ShowExplanationUndisturbed ==
  [][/\ HandleShowExplanation => (ShowsExplanationAtOnce /\ StartsResume)
     /\ \A n \in 1..MaxPending :
          (LastAccessedResolves(n) /\ exploring[n].caller = "handleShowExplanation") =>
            /\ EndsResumed(n)
            /\ shell'.currentTopic = shell.currentTopic]_vars

\* C21 (as claimed): with handleStartExploration only ever called with non-empty
\* topics, whenever the view is "explanation" currentTopic is non-empty, also when
\* other handlers ran while a handleStartExploration invocation was suspended on
\* getLastAccessedLesson.
C21_ExplanationHasTopic ==
  shell.currentState = "explanation" => shell.currentTopic # ""

\* The view "explanation" first gets an empty currentTopic only in the step that
\* resumes a suspended handleStartExploration invocation (and keeps it through the
\* explanation, flashcards and quiz pages).  It holds under ShellSpec.
ExplanationHasTopicUnlessResumed ==
  [][(shell'.currentState = "explanation" /\ shell'.currentTopic = "") =>
       \/ /\ shell.currentState \in {"explanation", "flashcards", "quiz"}
          /\ shell.currentTopic = ""
       \/ \E n \in 1..MaxPending : LastAccessedResolves(n)]_vars

(***************************************************************************)
(* PendingSpec: submitQuery(A) is called, and submitQuery(B) is called at  *)
(* any moment after it: while A is suspended on a collaborator call, or    *)
(* after A ended with its staging timers still pending.  Nothing in the    *)
(* hook guards the second call (lines 36-42 test nothing).  reset(), the   *)
(* staging timers and the progress callbacks interleave freely with both   *)
(* invocations.  The second call asks for the query the Offline Cache does *)
(* not hold at start, the backend streams one progress text and the        *)
(* collaborators reject with one error; the other texts and errors change  *)
(* only the strings written.                                               *)
(***************************************************************************)
PendingErrors == { [kind |-> "Error", statusCode |-> 0, message |-> "boom"] }

PendingMessages == { "Lessons ready" }

PendingQueries == { "gravity" }

\* Lines 37-42 run for B once submitQuery(A) has been called.
SubmitQueryAgain(query) ==
  /\ inv[A].pc # "idle"
  /\ inv[B].pc = "idle"
  /\ nsub' = nsub + 1
  /\ state' = BeginSubmit(state)
  /\ inv' = [inv EXCEPT ![B] = [IdleInvocation EXCEPT !.pc = "awaitCache",
                                                       !.query = query]]
  /\ UNCHANGED <<contentVars, shellVars, tasks, cache, timers, ncb>>

\* A collaborator call that invocation i awaits resolves or rejects.
PendingSettles(i) ==
  \/ CacheLookupResolves(i)
  \/ \E e \in PendingErrors : CacheLookupRejects(i, e)
  \/ \E l \in BOOLEAN, r \in BOOLEAN : FetchSettles(i, l, r)
  \/ \E ok \in BOOLEAN : HealthSettles(i, ok)
  \/ \E r \in Results : SubmitResolves(i, r)
  \/ \E e \in PendingErrors : SubmitRejects(i, e)
  \/ SaveResolves(i)
  \/ \E e \in PendingErrors : SaveRejects(i, e)

PendingNext ==
  \/ FirstSubmit
  \/ \E q \in PendingQueries : SubmitQueryAgain(q)
  \/ \E i \in Invocations : PendingSettles(i)
  \/ \E i \in Invocations, m \in PendingMessages : ProgressCallback(i, m)
  \/ \E k \in TimerStages : TimerFires(k)
  \/ Reset

PendingSpec == Init /\ [][PendingNext]_vars

\* A submitQuery call is made.
Submits == nsub' = nsub + 1

\* What is pending: the suspended invocations, each with the await it is at and
\* what it holds, and the scheduled staging timers.
PendingWork == <<inv, timers>>

\* C18: nothing cancels work already started.  reset() leaves every suspended
\* invocation and every pending staging timer as it was; the error path of one
\* invocation leaves the pending timers and the other invocation as they were;
\* a new submitQuery call leaves the pending timers, the Task Tracker and the
\* invocation already started as they were.  And what is pending can run: a
\* pending timer can fire, and a suspended invocation can take its next step,
\* whatever reset(), the error path or a new call did to QueryState and the
\* Task Tracker.
C18_NothingCancelled ==
  /\ [][/\ Reset => PendingWork' = PendingWork
        /\ \A i \in Invocations :
              Fails(i) =>
                /\ timers' = timers
                /\ \A j \in Invocations \ {i} : inv'[j] = inv[j]
        /\ Submits =>
             /\ timers' = timers
             /\ tasks' = tasks
             /\ \A j \in Invocations : inv[j].pc # "idle" => inv'[j] = inv[j]]_vars
  /\ [](\A k \in TimerStages : timers[k] > 0 => ENABLED TimerFires(k))
  /\ [](\A i \in Invocations : InFlight(i) => ENABLED PendingSettles(i))

\* C18 witness: with one submitQuery call made, reset() ran while the health
\* check was pending (loading is false although the invocation has not ended);
\* the continuation then ran startTracking and a progress callback: the Task
\* Tracker holds its four records again, LESSONS completed, and QueryState shows
\* the callback's text.
C18_Witness ==
  /\ nsub = 1
  /\ inv[A].pc = "awaitSubmit"
  /\ inv[B].pc = "idle"
  /\ ncb = 1
  /\ state.loading = FALSE
  /\ state.progress = "Lessons ready"
  /\ \A t \in TaskTypes : HasTask(tasks, t)
  /\ StatusOf(tasks, "LESSONS") = "COMPLETED"
  /\ StatusOf(tasks, "QUIZ") = "PENDING"

\* Reached under PendingSpec: submitQuery(B) was called after reset() while A was
\* waiting for saveQueryMapping with its first staging timer pending, and B then
\* took the error path; A and the timer are still pending.
SecondCallAndErrorWithPending ==
  /\ nsub = 2
  /\ inv[A].pc = "awaitSave"
  /\ timers[1] = 1
  /\ inv[B].outcome = "error"
  /\ tasks = ResetTracker
  /\ state.queryId = Null

=============================================================================
